---- MODULE Spec2Model ----
(***************************************************************************)
(* jetstream/utils/batch_schedulers/slurm.py as a state machine.           *)
(*                                                                         *)
(* One Python thread calls the module's API (sbatch, SlurmJob.update,      *)
(* SlurmJob.wait, wait_for).  The scheduler is the environment: the exit   *)
(* code and output of the submit command and every reply of the accounting *)
(* command are inputs chosen at the step that runs the command.  Strings   *)
(* that the code parses (the sbatch output, the JobID field) are sequences *)
(* of one-character strings, so that strip, partition and int are          *)
(* computed, not assumed.                                                  *)
(***************************************************************************)
EXTENDS Integers, Sequences, FiniteSets, TLC

(***************************************************************************)
(* Bounds of the model.                                                    *)
(***************************************************************************)
\* Number of jobs the scheduler accepts in one behaviour.
MaxJobs == 2
\* Number of accounting queries one API call may issue before the model
\* stops following it.
MaxQueries == 3
\* Number of records in one accounting reply.
MaxRecords == 2
\* The job id the scheduler gives to the first accepted job.
FirstJobId == 9
\* Number of job names easy() asks for.
MaxNames == 2
\* Number of tasks of a workflow.
MaxTasks == 3
\* Number of times the command line is run on the same project.
MaxRuns == 2
\* The fork limit LocalBackend() finds for itself on the machine.
LocalForks == 2

(***************************************************************************)
(* Module constants: slurm.py lines 14-54.                                 *)
(***************************************************************************)
states ==
    {"BOOT_FAIL", "CANCELLED", "COMPLETED", "CONFIGURING", "COMPLETING",
     "FAILED", "NODE_FAIL", "PENDING", "PREEMPTED", "REVOKED", "RUNNING",
     "SPECIAL_EXIT", "STOPPED", "SUSPENDED", "TIMEOUT"}

active_states ==
    {"CONFIGURING", "COMPLETING", "RUNNING", "SPECIAL_EXIT", "PENDING"}

inactive_states ==
    {"BOOT_FAIL", "CANCELLED", "COMPLETED", "FAILED", "NODE_FAIL",
     "PREEMPTED", "REVOKED", "STOPPED", "SUSPENDED", "TIMEOUT"}

\* failed_states gone wrong: every inactive state counts as failed.
FailedStatesAllInactive == inactive_states

failed_states == {"BOOT_FAIL", "CANCELLED", "FAILED", "NODE_FAIL"}

completed_states == {"COMPLETED"}

\* os.environ.get('SLURM_UPDATE_FREQUENCY', 1): seconds slept by every query.
_update_frequency == 1

\* os.environ.get('SLURM_MAX_UPDATE_WAIT', 3600): seconds.
_max_update_wait == 3600

(***************************************************************************)
(* Python string operations used by the code, on sequences of characters.  *)
(***************************************************************************)
DigitChars == <<"0", "1", "2", "3", "4", "5", "6", "7", "8", "9">>

Whitespace == {" ", "\n"}

\* The value of one decimal digit character.
DigitValue(c) == (CHOOSE i \in 1..10 : DigitChars[i] = c) - 1

IsDigits(s) ==
    /\ Len(s) > 0
    /\ \A i \in 1..Len(s) : \E k \in 1..10 : DigitChars[k] = s[i]

RECURSIVE int(_)
\* int(str) for a string of decimal digits (the scheduler boundary gives
\* job ids in this form); anything else is Python's ValueError.
int(s) ==
    IF ~IsDigits(s) THEN "ValueError"
    ELSE IF Len(s) = 1 THEN DigitValue(s[1])
    ELSE 10 * int(SubSeq(s, 1, Len(s) - 1)) + DigitValue(s[Len(s)])

RECURSIVE str(_)
\* str(n) for n >= 0: how the scheduler prints a job id.
str(n) ==
    IF n < 10 THEN <<DigitChars[n + 1]>>
    ELSE Append(str(n \div 10), DigitChars[(n % 10) + 1])

RECURSIVE strip(_)
\* str.strip(): leading and trailing whitespace removed.
strip(s) ==
    IF s = <<>> THEN s
    ELSE IF s[1] \in Whitespace THEN strip(Tail(s))
    ELSE IF s[Len(s)] \in Whitespace THEN strip(SubSeq(s, 1, Len(s) - 1))
    ELSE s

\* str.partition(sep): (head, sep, tail) around the first sep, or
\* (s, '', '') when sep does not occur.
partition(s, sep) ==
    IF \E i \in 1..Len(s) : s[i] = sep
    THEN LET i == CHOOSE k \in 1..Len(s) :
                      s[k] = sep /\ \A m \in 1..(k - 1) : s[m] # sep
         IN  <<SubSeq(s, 1, i - 1), <<sep>>, SubSeq(s, i + 1, Len(s))>>
    ELSE <<s, <<>>, <<>>>>

(***************************************************************************)
(* The scheduler boundary: what the submit and accounting commands print.  *)
(***************************************************************************)
\* Cluster qualifiers the submit command may print after ';' (none: <<>>).
ClusterNames == {<<>>, <<"c">>}

\* Exit codes of the submit command.
ReturnCodes == {0, 1}

\* What `sbatch --parsable` prints for job id n: "n\n" or "n;cluster\n".
SbatchStdout(n, cluster) ==
    str(n) \o (IF cluster = <<>> THEN <<>> ELSE <<";">> \o cluster) \o <<"\n">>

\* Seconds the sacct subprocess itself takes, before the sleep: none, or
\* so long that one query ends exactly _max_update_wait after it began.
SacctLatency == {0, _max_update_wait - _update_frequency}

\* Job ids the scheduler has given out after n accepted submissions.
JobIds(n) == FirstJobId .. (FirstJobId + n - 1)

\* The State values the accounting replies of the polling calls are drawn
\* from: an active state and an inactive one (a reply may also carry no
\* State at all).  get_jobs() draws from all of `states`.
PolledStates == {"RUNNING", "COMPLETED"}

\* The parsed rows of an accounting report about jobs ids with State in S:
\* each an OrderedDict of the header fields.  Only JobID and State are read
\* by the code; a report whose header has no State column gives rows
\* without that key.
Rows(ids, S) ==
    [JobID : {str(j) : j \in ids}, State : S] \cup [JobID : {str(j) : j \in ids}]

RECURSIVE Replies(_, _, _)
\* The replies of up to k rows: a first row from `first`, further rows from
\* `more`.
Replies(first, more, k) ==
    IF k = 0 THEN {<<>>}
    ELSE IF k = 1 THEN {<<>>} \cup {<<r>> : r \in first}
    ELSE Replies(first, more, k - 1)
            \cup {Append(d, r) :
                    d \in {x \in Replies(first, more, k - 1) : Len(x) = k - 1},
                    r \in more}

\* Rows about another job than jid (`sacct -j` lists what it takes to
\* belong to the job asked for).
ForeignRows(jid) ==
    [JobID : {str(j) : j \in JobIds(MaxJobs) \ {jid}}, State : {"RUNNING"}]

\* query_sacct(jid): the records of one accounting reply to a polling call:
\* no, one or several rows about job jid, and possibly a row about another
\* job before or after them.
query_sacct[jid \in JobIds(MaxJobs)] ==
    LET own == Replies(Rows({jid}, PolledStates),
                       [JobID : {str(jid)}, State : {"RUNNING"}], MaxRecords)
        short == {d \in own : Len(d) < MaxRecords}
    IN  own \cup {<<f>> \o d : f \in ForeignRows(jid), d \in short}
            \cup {d \o <<f>> : f \in ForeignRows(jid), d \in short}

\* query_sacct(all=True): the records get_jobs() is given.
query_sacct_all ==
    Replies(Rows(JobIds(MaxJobs), states), Rows(JobIds(MaxJobs), states),
            MaxRecords) \ {<<>>}

(***************************************************************************)
(* SlurmJob                                                                *)
(***************************************************************************)
\* A SlurmJob object.  cluster is <<>> for None and <<string>> otherwise;
\* sacct is <<>> while the attribute is not set and <<row>> once it is.
NoObject == [jid |-> 0, cluster |-> <<>>, sacct |-> <<>>, live |-> FALSE]

\* SlurmJob.__init__ up to `if sacct is not None: self.sacct = sacct`.
NewSlurmJob(jid, cluster, sacct) ==
    [jid |-> int(jid), cluster |-> cluster, sacct |-> sacct, live |-> TRUE]

\* SlurmJob.status
status(job) ==
    IF job.sacct = <<>> THEN "AttributeError"
    ELSE IF "State" \in DOMAIN job.sacct[1] THEN job.sacct[1].State
    ELSE "unknown"

\* SlurmJob.is_active
is_active(job) == status(job) \in active_states

\* SlurmJob.is_failed
is_failed(job) == status(job) \in failed_states

\* SlurmJob.is_complete
is_complete(job) == status(job) \in completed_states

\* The rows of sacct_data that are about job jid (the list comprehension).
Matches(jid, sacct_data) ==
    SelectSeq(sacct_data, LAMBDA r : int(r.JobID) = jid)

\* _get_sacct gone wrong: the first row of the reply is taken for the job's.
GetSacctFirstRow(jid, sacct_data) ==
    IF Len(sacct_data) = 0 THEN [raised |-> TRUE, rec |-> <<>>]
    ELSE [raised |-> FALSE, rec |-> <<sacct_data[1]>>]

\* SlurmJob._get_sacct after the query: the matching row, or SacctOutput.
_get_sacct(jid, sacct_data) ==
    LET matches == Matches(jid, sacct_data)
    IN  IF Len(matches) > 1 THEN [raised |-> TRUE, rec |-> <<>>]
        ELSE IF Len(matches) = 0 THEN [raised |-> TRUE, rec |-> <<>>]
        ELSE [raised |-> FALSE, rec |-> <<matches[1]>>]

\* The query gone wrong: the sleep is lost.
QueryEndsAtOnce(t, latency) == t + latency

\* query_sacct() called at time t: the subprocess takes latency seconds,
\* then time.sleep(_update_frequency); the time when it returns.
QueryEnds(t, latency) == t + latency + _update_frequency

\* One more accounting query issued by the running call; the count is
\* kept up to MaxQueries.
Counted(n) == IF n < MaxQueries THEN n + 1 ELSE n

\* The test gone wrong: >= for >.
UpdateGivesUpEarly(elapsed) == elapsed >= _max_update_wait

\* The test of the except clause in update(): give up and re-raise.
UpdateGivesUp(elapsed) == elapsed > _max_update_wait

\* `timeout and elapsed > timeout` in wait() and wait_for(); a timeout is
\* <<>> for None and <<seconds>> otherwise.
TimedOut(timeout, elapsed) ==
    /\ timeout # <<>>
    /\ timeout[1] # 0
    /\ elapsed > timeout[1]

\* Timeouts the callers pass.
Timeouts == {<<>>, <<0>>, <<1>>}

(***************************************************************************)
(* State                                                                   *)
(***************************************************************************)
VARIABLES
    pc,          \* where the thread is: "idle", "update", "init_ret",
                 \* "wait_ret", "for_ret"
    call,        \* the API call that is running, "none" when idle
    now,         \* time.time(), counted from the entry of the running call
    nq,          \* accounting queries issued by the running call
    nsub,        \* jobs the scheduler has accepted
    cmd,         \* the last scheduler command the thread ran
    p,           \* sbatch(): what the submit command did (the Popen object)
    heap,        \* the SlurmJob objects, by object number
    _instances,  \* SlurmJob._instances
    self,        \* update(): the object it runs on
    u_start,     \* update(): start
    w,           \* wait() and wait_for(): timeout, start and elapsed
    order,       \* wait_for(): the keys of tracker, in insertion order
    tracker,     \* wait_for(): tracker
    todo,        \* wait_for(): the keys of incomplete not yet visited
    incomplete,  \* wait_for(): the keys of incomplete in this round
    visited,     \* history: the objects updated in this round of wait_for()
    last,        \* history: the rows about self.jid in the last reply
    pre,         \* history: self.sacct when the running update() was entered
    result,      \* how the last API call ended
    fs,          \* easy(): the directory logs and the scripts in it
    ef,          \* easy(): its frame (job_name, script)
    nulid,       \* easy(): the names ulid.new() has given out
    submitted,   \* history: what easy() handed to the submit command
    rpc,         \* run: where main() and the Runner's loop are
    runner,      \* run: the Runner (backend, max_concurrency)
    workflow,    \* run: the Workflow, status and dependencies by task
    saved,       \* run: the snapshot of the Workflow in storage
    ready,       \* run: tasks of ready_set() not yet looked at in this round
    polls,       \* run: tasks in flight not yet polled in this round
    run          \* history: runs started, the options and the snapshot this
                 \* one began with, submissions by task

\* The state of slurm.py.
svars ==
    <<pc, call, now, nq, nsub, cmd, p, heap, _instances, self, u_start, w, order,
      tracker, todo, incomplete, visited, last, pre, result>>

\* The state of easy() beyond that.
evars == <<fs, ef, nulid, submitted>>

\* The state of a run of the command line.
rvars == <<rpc, runner, workflow, saved, ready, polls, run>>

vars == <<svars, evars, rvars>>

Objects == 1..MaxJobs

NoResult ==
    [call |-> "none", kind |-> "none", value |-> "none", job |-> 0, rc |-> 0]

Returned(c, v, h) ==
    [call |-> c, kind |-> "return", value |-> v, job |-> h, rc |-> 0]

Raised(c, e, h, rc) ==
    [call |-> c, kind |-> "raise", value |-> e, job |-> h, rc |-> rc]

\* The submit command as the scheduler ran it: its exit code and, when it
\* accepted the job, the job id and the cluster it printed.
NoProcess == [returncode |-> 0, jid |-> 0, cluster |-> <<>>]

NoWait == [timeout |-> <<>>, start |-> 0, elapsed |-> 0]

\* What is kept of a reply: how many rows are about the job, and the row
\* when there is exactly one.
NoLast == [n |-> 0, rec |-> <<>>]

Seen(matches) ==
    [n |-> Len(matches), rec |-> IF Len(matches) = 1 THEN matches ELSE <<>>]

\* slurm.py is imported: SlurmJob._instances = set(), no call is running.
InitSlurm ==
    /\ pc = "idle"
    /\ call = "none"
    /\ now = 0
    /\ nq = 0
    /\ nsub = 0
    /\ cmd = "none"
    /\ p = NoProcess
    /\ heap = [h \in Objects |-> NoObject]
    /\ _instances = {}
    /\ self = 0
    /\ u_start = 0
    /\ w = NoWait
    /\ order = <<>>
    /\ tracker = <<>>
    /\ todo = <<>>
    /\ incomplete = {}
    /\ visited = {}
    /\ last = NoLast
    /\ pre = <<>>
    /\ result = NoResult

\* The sequences without repetition over the set S.
DistinctSeqs(S) ==
    UNION {{f \in [1..k -> S] : \A i, j \in 1..k : i # j => f[i] # f[j]} :
           k \in 0..Cardinality(S)}

\* The elements of the sequence q.
Range(q) == {q[i] : i \in 1..Len(q)}

\* The object numbers not in use, and the k-th of them.
Free(objs) == {h \in Objects : ~objs[h].live}

Slot(objs, k) ==
    CHOOSE h \in Free(objs) : Cardinality({g \in Free(objs) : g < h}) = k - 1

\* The thread is idle and starts an API call.
Enter ==
    /\ pc = "idle"
    /\ last' = NoLast

\* The running API call ends: its frame and locals are gone, and the clock
\* of the model stops with it.
Leave(r) ==
    /\ pc' = "idle"
    /\ call' = "none"
    /\ result' = r
    /\ now' = 0
    /\ nq' = 0
    /\ self' = 0
    /\ u_start' = 0
    /\ pre' = <<>>
    /\ w' = NoWait
    /\ order' = <<>>
    /\ tracker' = <<>>
    /\ todo' = <<>>
    /\ incomplete' = {}
    /\ visited' = {}

\* update() is entered on object h of objs at time t: start = time.time().
CallUpdate(h, objs, t) ==
    /\ pc' = "update"
    /\ self' = h
    /\ u_start' = t
    /\ pre' = objs[h].sacct

NoWaitLocals ==
    /\ w' = NoWait
    /\ order' = <<>>
    /\ tracker' = <<>>
    /\ todo' = <<>>
    /\ incomplete' = {}
    /\ visited' = {}

(***************************************************************************)
(* sbatch and SlurmJob.__init__                                            *)
(***************************************************************************)
\* jid, _, cluster = stdout.decode().strip().partition(';')
ParseSubmission(stdout) ==
    LET parts == partition(strip(stdout), ";")
    IN  [jid |-> parts[1], cluster |-> parts[3]]

\* The test gone wrong: only a negative code (a signal) counts as failure.
SubmitFailedOnSignal(returncode) == returncode < 0

\* sbatch raises ChildProcessError(str(vars(p))) when p.returncode != 0.
SubmitFailed(returncode) == returncode # 0

\* The submit command has run and exited with returncode: on a nonzero
\* exit ChildProcessError is raised, otherwise SlurmJob(jid,
\* cluster=cluster) is constructed, which sets jid and cluster and calls
\* self.update().
Submit(returncode, cluster) ==
    /\ cmd' = "sbatch"
    /\ UNCHANGED _instances
    /\ IF SubmitFailed(returncode)
       THEN /\ p' = [returncode |-> returncode, jid |-> 0, cluster |-> <<>>]
            /\ Leave(Raised("sbatch", "ChildProcessError", 0, returncode))
            /\ UNCHANGED <<nsub, heap>>
       ELSE LET n == FirstJobId + nsub
                arg == ParseSubmission(SbatchStdout(n, cluster))
                h == Slot(heap, 1)
                objs == [heap EXCEPT
                           ![h] = NewSlurmJob(arg.jid, <<arg.cluster>>, <<>>)]
            IN  /\ p' = [returncode |-> returncode, jid |-> n,
                         cluster |-> cluster]
                /\ nsub' = nsub + 1
                /\ heap' = objs
                /\ call' = "sbatch"
                /\ result' = NoResult
                /\ CallUpdate(h, objs, now)
                /\ NoWaitLocals
                /\ UNCHANGED <<now, nq>>

\* sbatch(): the submit command is run without stdin_data and its exit is
\* handled.
sbatch ==
    /\ UNCHANGED <<evars, rvars>>
    /\ nsub < MaxJobs
    /\ Enter
    /\ \E returncode \in ReturnCodes, cluster \in ClusterNames :
          Submit(returncode, cluster)

\* SlurmJob.__init__ after self.update() returned: the object is added to
\* SlurmJob._instances and sbatch returns it.
init_ret ==
    /\ UNCHANGED <<evars, rvars>>
    /\ pc = "init_ret"
    /\ _instances' = _instances \cup {self}
    /\ Leave(Returned("sbatch", "SlurmJob", self))
    /\ UNCHANGED <<nsub, cmd, p, heap, last>>

(***************************************************************************)
(* easy                                                                    *)
(*                                                                         *)
(* A text is a sequence of pieces: pieces of ASCII text, and single        *)
(* characters outside ASCII written "U+....".  Bytes are pieces of ASCII   *)
(* and single bytes written "0x..".                                        *)
(***************************************************************************)
\* The characters outside ASCII a command is given with.
NonAscii == {"U+00E9", "U+20AC"}

\* str.encode() of one piece: UTF-8, where ASCII is unchanged.
utf8(c) ==
    CASE c = "U+00E9" -> <<"0xC3", "0xA9">>
      [] c = "U+20AC" -> <<"0xE2", "0x82", "0xAC">>
      [] OTHER -> <<c>>

RECURSIVE encode(_)
\* script.encode()
encode(text) ==
    IF text = <<>> THEN <<>> ELSE utf8(text[1]) \o encode(Tail(text))

\* The bytes that are not ASCII.
HighBytes == {"0xC3", "0xA9", "0xE2", "0x82", "0xAC"}

RECURSIVE decode(_)
\* The text the bytes are to a reader of UTF-8; "U+FFFD" stands where they
\* are not UTF-8.
decode(bytes) ==
    IF bytes = <<>> THEN <<>>
    ELSE IF Len(bytes) >= 2 /\ SubSeq(bytes, 1, 2) = <<"0xC3", "0xA9">>
    THEN <<"U+00E9">> \o decode(SubSeq(bytes, 3, Len(bytes)))
    ELSE IF Len(bytes) >= 3
            /\ SubSeq(bytes, 1, 3) = <<"0xE2", "0x82", "0xAC">>
    THEN <<"U+20AC">> \o decode(SubSeq(bytes, 4, Len(bytes)))
    ELSE IF bytes[1] \in HighBytes
    THEN <<"U+FFFD">> \o decode(Tail(bytes))
    ELSE <<bytes[1]>> \o decode(Tail(bytes))

RECURSIVE join(_, _)
\* sep.join(texts)
join(sep, texts) ==
    IF texts = <<>> THEN <<>>
    ELSE IF Len(texts) = 1 THEN texts[1]
    ELSE texts[1] \o sep \o join(sep, Tail(texts))

\* The shell commands easy() is given.
Commands == {<<"true">>, <<"echo ", "U+00E9", "U+20AC">>}

\* The extra sbatch arguments easy() is given.
EasyArgs == {<<>>, <<<<"--mem=1G">>>>}

\* module_load: None, or the modules to load.
Modules == {<<>>, <<"gcc">>}

\* What is at the path `logs` when easy() looks: nothing, a directory, or
\* something that is no directory.  Once a script was written there it is
\* a directory.
LogsFound(disk) ==
    IF DOMAIN disk.files = {} THEN {"absent", "dir", "file"} ELSE {"dir"}

\* How `with open(path, 'w') as fp: fp.write(script)` ends: written, open()
\* raised, or write()/close() raised with the file created and empty.
WriteOutcomes == {"written", "open raised", "write raised"}

\* A name generator gone wrong: the same name every time.
UlidRepeats(n) == 1

\* ulid.new(): a name never given before, the n+1st.
ulid_new(n) == n + 1

\* ulid.new().str
JobName(n) == <<"ULID">> \o str(n)

\* sbatch_args = args + ('-J', job_name, '-o', 'logs/%x_slurm-%A.out')
SbatchArgs(args, job_name) ==
    args \o <<<<"-J">>, JobName(job_name), <<"-o">>,
              <<"logs/%x_slurm-%A.out">>>>

\* module_cmd
ModuleCmd(module_load) ==
    IF module_load # <<>>
    THEN <<"module load ">> \o module_load
    ELSE <<"# No additional modules loaded'">>

\* template.format(sbatch_args=' '.join(sbatch_args), module_cmd=module_cmd,
\* script=cmd)
Script(sbatch_args, module_cmd, command) ==
    <<"#!/bin/bash\n",
      "# Generated with jetstream.scriptkit.slurm.easy()\n",
      "# sbatch ">> \o join(<<" ">>, sbatch_args) \o <<"\n", "# ---\n">>
      \o module_cmd \o <<"\n">> \o command \o <<"\n">>

\* No call of easy() is between its two steps.
NoEasy == [job_name |-> 0, script |-> <<>>, sbatch_args |-> <<>>]

\* The files written under logs, by job name.
NoFiles == [n \in {} |-> <<>>]

\* easy() up to the call of sbatch(): `sbatch --version` is checked, logs is
\* made a directory, the job is named, the script is formatted and written
\* to logs/<job_name>.sh.  Any of the steps may raise, which ends easy().
easy ==
    /\ UNCHANGED rvars
    /\ nsub < MaxJobs
    /\ nulid < MaxNames
    /\ Enter
    /\ cmd' = "sbatch"
    /\ UNCHANGED <<_instances, p, nsub, heap, submitted>>
    /\ \E command \in Commands, args \in EasyArgs, module_load \in Modules,
          version \in ReturnCodes, found \in LogsFound(fs),
          io \in WriteOutcomes :
          LET job_name == ulid_new(nulid)
              sbatch_args == SbatchArgs(args, job_name)
              script == Script(sbatch_args, ModuleCmd(module_load), command)
          IN  IF version # 0
              THEN /\ Leave(Raised("easy", "CalledProcessError", 0, version))
                   /\ UNCHANGED <<fs, ef, nulid>>
              ELSE IF found = "file"
              THEN /\ Leave(Raised("easy", "FileExistsError", 0, 0))
                   /\ fs' = [fs EXCEPT !.logs = "file"]
                   /\ UNCHANGED <<ef, nulid>>
              ELSE IF io = "open raised"
              THEN /\ Leave(Raised("easy", "OSError", 0, 0))
                   /\ fs' = [fs EXCEPT !.logs = "dir"]
                   /\ nulid' = job_name
                   /\ UNCHANGED ef
              ELSE IF io = "write raised"
              THEN /\ Leave(Raised("easy", "OSError", 0, 0))
                   /\ fs' = [logs |-> "dir",
                             files |-> (job_name :> <<>>) @@ fs.files]
                   /\ nulid' = job_name
                   /\ UNCHANGED ef
              ELSE /\ fs' = [logs |-> "dir",
                             files |-> (job_name :> script) @@ fs.files]
                   /\ nulid' = job_name
                   /\ ef' = [job_name |-> job_name, script |-> script,
                             sbatch_args |-> sbatch_args]
                   /\ pc' = "easy_sbatch"
                   /\ call' = "easy"
                   /\ result' = NoResult
                   /\ UNCHANGED <<now, nq, self, u_start, pre, w, order,
                                  tracker, todo, incomplete, visited>>

\* job = sbatch(*sbatch_args, stdin_data=script.encode()); return job.  The
\* submit command is run with the encoded script on its standard input, and
\* what sbatch() returns or raises is what easy() does.
easy_sbatch ==
    /\ UNCHANGED <<rvars, fs, nulid, last>>
    /\ pc = "easy_sbatch"
    /\ ef' = NoEasy
    /\ \E returncode \in ReturnCodes, cluster \in ClusterNames :
          /\ Submit(returncode, cluster)
          /\ submitted' = submitted \cup
                {[job_name |-> ef.job_name,
                  args |-> ef.sbatch_args,
                  stdin_data |-> encode(ef.script),
                  returncode |-> returncode,
                  jid |-> IF SubmitFailed(returncode) THEN 0
                          ELSE FirstJobId + nsub]}

(***************************************************************************)
(* get_jobs                                                                *)
(***************************************************************************)
\* get_jobs(all=True): one SlurmJob(rec['JobID'], sacct=rec) per record of
\* the reply, each added to SlurmJob._instances by its constructor.
get_jobs ==
    /\ UNCHANGED <<evars, rvars>>
    /\ Enter
    /\ \E records \in query_sacct_all :
          /\ Len(records) <= Cardinality(Free(heap))
          /\ LET new == {Slot(heap, k) : k \in 1..Len(records)}
                 rank(h) == Cardinality({g \in new : g <= h})
             IN  /\ heap' = [h \in Objects |->
                               IF h \in new
                               THEN NewSlurmJob(records[rank(h)].JobID, <<>>,
                                                <<records[rank(h)]>>)
                               ELSE heap[h]]
                 /\ _instances' = _instances \cup new
    /\ cmd' = "sacct"
    /\ Leave(Returned("get_jobs", "list", 0))
    /\ p' = NoProcess
    /\ UNCHANGED nsub

(***************************************************************************)
(* SlurmJob.update                                                         *)
(***************************************************************************)
\* Where update() returns to, by the API call that runs it.
AfterUpdate(c) ==
    CASE c = "sbatch" -> "init_ret"
      [] c = "wait" -> "wait_ret"
      [] c = "wait_for" -> "for_ret"

\* update() gone wrong: a record once set is kept.
UpdateReturnsKeepsFirst(rec, t) ==
    /\ heap' = [heap EXCEPT ![self].sacct = IF @ = <<>> THEN rec ELSE @]
    /\ IF call = "update"
       THEN Leave(Returned("update", "None", self))
       ELSE /\ pc' = AfterUpdate(call)
            /\ now' = t
            /\ nq' = Counted(nq)
            /\ UNCHANGED <<call, result, self, u_start, pre, w, order, tracker,
                           todo, incomplete, visited>>

\* self.sacct = self._get_sacct(); break.  The query ended at time t.
UpdateReturns(rec, t) ==
    /\ heap' = [heap EXCEPT ![self].sacct = rec]
    /\ IF call = "update"
       THEN Leave(Returned("update", "None", self))
       ELSE /\ pc' = AfterUpdate(call)
            /\ now' = t
            /\ nq' = Counted(nq)
            /\ UNCHANGED <<call, result, self, u_start, pre, w, order, tracker,
                           todo, incomplete, visited>>

\* update() gone wrong: the record is cleared before the error is raised.
UpdateRaisesClearsRecord ==
    /\ heap' = IF call = "sbatch" THEN [heap EXCEPT ![self] = NoObject]
               ELSE [heap EXCEPT
                       ![self].sacct = <<[JobID |-> str(heap[self].jid)]>>]
    /\ Leave(Raised(call, "SacctOutput", self, 0))

\* except SacctOutput: if elapsed > _max_update_wait: raise.  No caller
\* catches it; an object under construction is dropped with the frame.
UpdateRaises ==
    /\ heap' = IF call = "sbatch" THEN [heap EXCEPT ![self] = NoObject] ELSE heap
    /\ Leave(Raised(call, "SacctOutput", self, 0))

\* except SacctOutput: the error is swallowed and the loop goes round.
UpdateRetries(t) ==
    /\ now' = t
    /\ nq' = Counted(nq)
    /\ UNCHANGED <<pc, call, result, heap, self, u_start, pre, w, order,
                   tracker, todo, incomplete, visited>>

\* One round of the `while 1` loop of update(): elapsed is taken, the
\* accounting query runs (the subprocess, then the sleep), and the reply is
\* matched against self.jid.
UpdateRound ==
    /\ UNCHANGED <<evars, rvars>>
    /\ pc = "update"
    /\ \E latency \in SacctLatency, sacct_data \in query_sacct[heap[self].jid] :
          LET elapsed == now - u_start
              got == _get_sacct(heap[self].jid, sacct_data)
              t == QueryEnds(now, latency)
          IN  /\ cmd' = "sacct"
              /\ last' = Seen(Matches(heap[self].jid, sacct_data))
              /\ IF ~got.raised THEN UpdateReturns(got.rec, t)
                 ELSE IF UpdateGivesUp(elapsed) THEN UpdateRaises
                 ELSE UpdateRetries(t)
    /\ UNCHANGED <<nsub, p, _instances>>

\* A round of update() within the first MaxQueries queries of the running
\* call.
update ==
    /\ nq < MaxQueries
    /\ UpdateRound

\* A round of update(), however many came before.
update_round == UpdateRound

\* job.update() called by the user on a registered handle.
update_call ==
    /\ UNCHANGED <<evars, rvars>>
    /\ Enter
    /\ \E h \in _instances : CallUpdate(h, heap, now)
    /\ call' = "update"
    /\ result' = NoResult
    /\ NoWaitLocals
    /\ p' = NoProcess
    /\ UNCHANGED <<now, nq, nsub, cmd, heap, _instances>>

(***************************************************************************)
(* SlurmJob.wait                                                           *)
(***************************************************************************)
\* The timeout gone wrong: the job is cancelled before the error is raised.
RaiseTimeoutCancels(c) ==
    /\ Leave(Raised(c, "TimeoutError", self, 0))
    /\ cmd' = "scancel"

\* raise TimeoutError: the caller stops waiting; nothing is sent to the
\* scheduler.
RaiseTimeout(c) ==
    /\ Leave(Raised(c, "TimeoutError", self, 0))
    /\ UNCHANGED cmd

\* job.wait(timeout): start = time.time(), then the first round of the loop
\* up to its call of self.update().
wait_call ==
    /\ UNCHANGED <<evars, rvars>>
    /\ Enter
    /\ \E h \in _instances, timeout \in Timeouts :
          /\ w' = [timeout |-> timeout, start |-> now, elapsed |-> now - now]
          /\ CallUpdate(h, heap, now)
    /\ call' = "wait"
    /\ result' = NoResult
    /\ order' = <<>>
    /\ tracker' = <<>>
    /\ todo' = <<>>
    /\ incomplete' = {}
    /\ visited' = {}
    /\ p' = NoProcess
    /\ UNCHANGED <<now, nq, nsub, cmd, heap, _instances>>

\* wait() after self.update() returned: break and return self.status, or
\* raise TimeoutError, or go round (elapsed is taken, update() is called).
wait_ret ==
    /\ UNCHANGED <<evars, rvars>>
    /\ pc = "wait_ret"
    /\ IF ~is_active(heap[self])
       THEN Leave(Returned("wait", status(heap[self]), self)) /\ UNCHANGED cmd
       ELSE IF TimedOut(w.timeout, w.elapsed)
       THEN RaiseTimeout("wait")
       ELSE /\ w' = [w EXCEPT !.elapsed = now - w.start]
            /\ CallUpdate(self, heap, now)
            /\ UNCHANGED <<call, result, now, nq, cmd, order, tracker, todo,
                           incomplete, visited>>
    /\ UNCHANGED <<nsub, p, heap, _instances, last>>

(***************************************************************************)
(* wait_for                                                                *)
(***************************************************************************)
\* incomplete gone wrong: the filter is lost.
IncompleteAll(keys, tr) == keys

\* incomplete = {k: v for k, v in tracker.items() if v}: its keys, in order.
Incomplete(keys, tr) == SelectSeq(keys, LAMBDA k : tr[k])

\* The top of the `while 1` loop of wait_for() with tracker tr: elapsed is
\* taken and incomplete is built; if it is empty the loop breaks and
\* wait_for returns, otherwise the for loop calls update() on its first key.
ForTop(keys, tr) ==
    LET inc == Incomplete(keys, tr)
    IN  IF inc = <<>>
        THEN Leave(Returned("wait_for", "None", 0))
        ELSE /\ w' = [w EXCEPT !.elapsed = now - w.start]
             /\ incomplete' = Range(inc)
             /\ CallUpdate(Head(inc), heap, now)
             /\ todo' = Tail(inc)
             /\ visited' = {Head(inc)}
             /\ tracker' = tr
             /\ UNCHANGED <<call, result, now, nq, order>>

\* wait_for(*jobs, timeout): ValueError without jobs; otherwise start and
\* tracker are set and the first round begins.
wait_for_call ==
    /\ UNCHANGED <<evars, rvars>>
    /\ Enter
    /\ p' = NoProcess
    /\ UNCHANGED <<nsub, cmd, heap, _instances>>
    /\ \E jobs \in DistinctSeqs(_instances), timeout \in Timeouts :
          IF jobs = <<>>
          THEN Leave(Raised("wait_for", "ValueError", 0, 0))
          ELSE /\ order' = jobs
               /\ tracker' = [h \in Range(jobs) |-> TRUE]
               /\ call' = "wait_for"
               /\ result' = NoResult
               /\ w' = [timeout |-> timeout, start |-> now, elapsed |-> now - now]
               /\ incomplete' = Range(jobs)
               /\ CallUpdate(Head(jobs), heap, now)
               /\ todo' = Tail(jobs)
               /\ visited' = {Head(jobs)}
               /\ UNCHANGED <<now, nq>>

\* The body of the for loop after job.update() returned:
\* tracker[job] = job.is_active, then TimeoutError, or the next key of
\* incomplete, or the next round of the while loop.
for_ret ==
    /\ UNCHANGED <<evars, rvars>>
    /\ pc = "for_ret"
    /\ UNCHANGED <<nsub, p, heap, _instances, last>>
    /\ LET tr == [tracker EXCEPT ![self] = is_active(heap[self])]
       IN  IF TimedOut(w.timeout, w.elapsed)
           THEN RaiseTimeout("wait_for")
           ELSE IF todo # <<>>
           THEN /\ tracker' = tr
                /\ CallUpdate(Head(todo), heap, now)
                /\ todo' = Tail(todo)
                /\ visited' = visited \cup {Head(todo)}
                /\ UNCHANGED <<call, result, now, nq, cmd, w, order,
                               incomplete>>
           ELSE ForTop(order, tr) /\ UNCHANGED cmd

(***************************************************************************)
(* Workflow: tasks, dependencies and status (specification 3 and 4.1).     *)
(***************************************************************************)
\* Task status.
Pending == "pending"

NonTerminal == {"pending", "dispatched", "running"}

Terminal == {"complete", "failed", "canceled"}

\* The dependency graphs of up to MaxTasks tasks, the tasks numbered in a
\* topological order: every acyclic graph is one of them up to the names
\* of its tasks.
Graphs ==
    UNION {{g \in [1..k -> SUBSET (1..k)] :
               \A t \in 1..k : g[t] \subseteq 1..(t - 1)} : k \in 1..MaxTasks}

\* No workflow: nothing built, nothing in storage.
NoWorkflow == <<>>

\* The workflow the build step makes of a graph: every task pending.
build_workflow(g) ==
    [t \in DOMAIN g |->
        [status |-> Pending, dependencies |-> g[t], external_job |-> FALSE]]

RECURSIVE Ancestors(_, _)
\* The tasks that task t depends on, directly or transitively.
Ancestors(wf, t) ==
    wf[t].dependencies
        \cup UNION {Ancestors(wf, d) : d \in wf[t].dependencies}

\* The tasks that depend on task t, directly or transitively.
Dependents(wf, t) == {a \in DOMAIN wf : t \in Ancestors(wf, a)}

\* ready_set() gone wrong: the status of the task itself is not looked at.
ReadySetAnyStatus(wf) ==
    {t \in DOMAIN wf :
        \A d \in wf[t].dependencies : wf[d].status = "complete"}

\* ready_set(): tasks in pending whose every dependency is complete.
ready_set(wf) ==
    {t \in DOMAIN wf :
        /\ wf[t].status = Pending
        /\ \A d \in wf[t].dependencies : wf[d].status = "complete"}

\* A task reset: pending, external_job (and result) cleared.
Reset(task) == [task EXCEPT !.status = Pending, !.external_job = FALSE]

\* retry(): every task in failed or pending is reset.
retry(wf) ==
    [t \in DOMAIN wf |->
        IF wf[t].status \in {"failed", "pending"} THEN Reset(wf[t]) ELSE wf[t]]

\* resume(): every task in pending is reset; failed tasks are left failed.
resume(wf) ==
    [t \in DOMAIN wf |->
        IF wf[t].status = "pending" THEN Reset(wf[t]) ELSE wf[t]]

\* mark_failed() gone wrong: nothing is cascaded.
MarkFailedNoCascade(wf, t) == [wf EXCEPT ![t].status = "failed"]

\* mark_failed() gone wrong: only the direct dependents are canceled.
MarkFailedDirect(wf, t) ==
    [u \in DOMAIN wf |->
        IF u = t THEN [wf[u] EXCEPT !.status = "failed"]
        ELSE IF t \in wf[u].dependencies /\ wf[u].status \in NonTerminal
        THEN [wf[u] EXCEPT !.status = "canceled"]
        ELSE wf[u]]

\* mark_failed(task): the task is failed and every transitive dependent
\* that has not ended is canceled.
mark_failed(wf, t) ==
    [u \in DOMAIN wf |->
        IF u = t THEN [wf[u] EXCEPT !.status = "failed"]
        ELSE IF u \in Dependents(wf, t) /\ wf[u].status \in NonTerminal
        THEN [wf[u] EXCEPT !.status = "canceled"]
        ELSE wf[u]]

\* The snapshot written to storage: id, status and dependencies of every
\* task (the job handle is not part of it).
Snapshot(wf) ==
    [t \in DOMAIN wf |->
        [status |-> wf[t].status, dependencies |-> wf[t].dependencies]]

\* load_workflow(path): the workflow of a snapshot.
load_workflow(snap) ==
    [t \in DOMAIN snap |->
        [status |-> snap[t].status, dependencies |-> snap[t].dependencies,
         external_job |-> FALSE]]

(***************************************************************************)
(* jetstream run: cli/subcommands/run.py, and the Runner (specification    *)
(* 4.5).                                                                   *)
(***************************************************************************)
\* SlurmBackend(max_concurrency=9002)
SlurmMaxConcurrency == 9002

\* --max-forks: None (<<>>) by default, or the number given.
MaxForks == {<<>>, <<0>>, <<1>>}

\* The command line: -w/--workflow given or not, --method (retry by
\* default; --retry and --resume store into it), --backend, --max-forks.
Args ==
    [workflow : BOOLEAN, method : {"retry", "resume"},
     backend : {"local", "slurm"}, max_forks : MaxForks]

\* if args.method == 'retry': workflow.retry() else: workflow.resume()
Restart(method, wf) == IF method = "retry" THEN retry(wf) ELSE resume(wf)

\* The backend's own limit: SlurmBackend(max_concurrency=9002), or what
\* LocalBackend() finds.
concurrency_limit(backend) ==
    IF backend = "slurm" THEN SlurmMaxConcurrency ELSE LocalForks

NoRunner == [backend |-> "none", max_concurrency |-> 0]

\* jetstream.Runner(backend=backend, max_concurrency=args.max_forks, ...):
\* the ceiling is max_concurrency, the backend's own limit unless
\* overridden.
Runner(backend, max_forks) ==
    [backend |-> backend,
     max_concurrency |->
        IF max_forks = <<>> THEN concurrency_limit(backend) ELSE max_forks[1]]

\* What is kept of a run: how many were started, the --max-forks and the
\* --method of this one ("none" when the workflow was built), the snapshot
\* it loaded, and the calls of Backend.submit by task.
NoRun ==
    [n |-> 0, max_forks |-> <<>>, method |-> "none", loaded |-> NoWorkflow,
     submits |-> <<>>]

\* No run has been started.
InitRun ==
    /\ rpc = "idle"
    /\ runner = NoRunner
    /\ workflow = NoWorkflow
    /\ saved = NoWorkflow
    /\ ready = {}
    /\ polls = {}
    /\ run = NoRun

\* The tasks in dispatched or running.
InFlight(wf) == {t \in DOMAIN wf : wf[t].status \in {"dispatched", "running"}}

\* The admission test gone wrong: <= for <.
AdmitsAtCeiling(wf, ceiling) == Cardinality(InFlight(wf)) <= ceiling

\* Step 2: count of dispatched and running < ceiling.
Admits(wf, ceiling) == Cardinality(InFlight(wf)) < ceiling

\* Step 5: no task is pending, dispatched or running.
Finished(wf) == \A t \in DOMAIN wf : wf[t].status \notin NonTerminal

\* main(): the workflow is loaded and retry() or resume() applied, or it is
\* built from the templates; the backend and the Runner are made and
\* runner.start(workflow) begins.  (--render-only and --build-only exit
\* before that; a workflow file that is not there ends main with the
\* error of load_workflow.)
main ==
    /\ rpc = "idle"
    /\ run.n < MaxRuns
    /\ UNCHANGED <<svars, evars, saved>>
    /\ \E args \in Args, built \in Graphs :
          /\ args.workflow => saved # NoWorkflow
          /\ LET wf == IF args.workflow
                       THEN Restart(args.method, load_workflow(saved))
                       ELSE build_workflow(built)
             IN  /\ workflow' = wf
                 /\ run' = [n |-> run.n + 1,
                            max_forks |-> args.max_forks,
                            method |-> IF args.workflow THEN args.method
                                       ELSE "none",
                            loaded |-> IF args.workflow THEN saved
                                       ELSE NoWorkflow,
                            submits |-> [t \in DOMAIN wf |-> 0]]
          /\ runner' = Runner(args.backend, args.max_forks)
    /\ rpc' = "loop"
    /\ ready' = {}
    /\ polls' = {}

\* Step 1 of the main loop: compute ready_set().
RunnerReadySet ==
    /\ rpc = "loop"
    /\ ready' = ready_set(workflow)
    /\ rpc' = "submit"
    /\ UNCHANGED <<svars, evars, runner, workflow, saved, polls, run>>

\* Backend.submit gave a handle: it is attached and the task is dispatched.
Dispatched(wf, t) ==
    [wf EXCEPT ![t] = [@ EXCEPT !.status = "dispatched",
                                !.external_job = TRUE]]

\* Step 2 for one ready task: if the count of dispatched and running is
\* below the ceiling, Backend.submit is called; it gives a handle, or fails
\* with SubmissionError, which fails the task.  Otherwise the task stays
\* pending.
RunnerSubmit ==
    /\ rpc = "submit"
    /\ \E t \in ready :
          /\ ready' = ready \ {t}
          /\ IF Admits(workflow, runner.max_concurrency)
             THEN \E accepted \in BOOLEAN :
                     IF accepted
                     THEN /\ workflow' = Dispatched(workflow, t)
                          /\ run' = [run EXCEPT !.submits[t] = @ + 1]
                     ELSE /\ workflow' = mark_failed(workflow, t)
                          /\ run' = [run EXCEPT !.submits[t] = @ + 1]
             ELSE UNCHANGED <<workflow, run>>
    /\ UNCHANGED <<svars, evars, rpc, runner, saved, polls>>

\* Step 3 begins: the tasks in dispatched or running are to be polled.
RunnerPollAll ==
    /\ rpc = "submit"
    /\ ready = {}
    /\ polls' = InFlight(workflow)
    /\ rpc' = "poll"
    /\ UNCHANGED <<svars, evars, runner, workflow, saved, ready, run>>

\* What Backend.poll gives.
PollResults == {"running", "complete", "failed"}

\* The graph after poll(handle) of task t gave r: on complete the task is
\* complete, on failed it is failed and mark_failed cascades; on running
\* it is running.
Polled(wf, t, r) ==
    IF r = "failed" THEN mark_failed(wf, t)
    ELSE [wf EXCEPT ![t].status = r]

\* The task the loop over the tasks in flight comes to next: they are
\* taken in the order of the graph.
NextPoll(ts) == CHOOSE t \in ts : \A u \in ts : t <= u

\* Step 3 for one task in flight, Backend.poll giving r.
RunnerPoll(t, r) ==
    /\ rpc = "poll"
    /\ polls # {}
    /\ t = NextPoll(polls)
    /\ polls' = polls \ {t}
    /\ workflow' = Polled(workflow, t, r)
    /\ UNCHANGED <<svars, evars, rpc, runner, saved, ready, run>>

\* The poll error gone wrong: the task is put back for submission.
PollFailedResets(wf, t) == [wf EXCEPT ![t] = Reset(@)]

\* AccountingQueryError in a poll: the task status is left unchanged in
\* this cycle.
PollFailed(wf, t) == wf

\* Step 3 for one task in flight, the poll of the batch backend raising
\* AccountingQueryError.
RunnerPollFails(t) ==
    /\ rpc = "poll"
    /\ runner.backend = "slurm"
    /\ polls # {}
    /\ t = NextPoll(polls)
    /\ polls' = polls \ {t}
    /\ workflow' = PollFailed(workflow, t)
    /\ UNCHANGED <<svars, evars, rpc, runner, saved, ready, run>>

\* Steps 4 and 5: the snapshot is written when the autosave interval has
\* passed; if no task is pending, dispatched or running the loop is left
\* and the final save is made, else the next iteration begins.
RunnerSave ==
    /\ rpc = "poll"
    /\ polls = {}
    /\ IF Finished(workflow)
       THEN /\ saved' = Snapshot(workflow)
            /\ rpc' = "idle"
       ELSE /\ \E due \in BOOLEAN :
                  saved' = IF due THEN Snapshot(workflow) ELSE saved
            /\ rpc' = "loop"
    /\ UNCHANGED <<svars, evars, runner, workflow, ready, polls, run>>

(***************************************************************************)
(* The program                                                             *)
(***************************************************************************)
\* No file under logs, no call of easy().
InitEasy ==
    /\ fs = [logs |-> "absent", files |-> NoFiles]
    /\ ef = NoEasy
    /\ nulid = 0
    /\ submitted = {}

Init == InitSlurm /\ InitEasy /\ InitRun

\* A thread that submits jobs and polls the handles it was given.
Next ==
    \/ sbatch
    \/ init_ret
    \/ update_call
    \/ update
    \/ wait_call
    \/ wait_ret
    \/ wait_for_call
    \/ for_ret

Spec == Init /\ [][Next]_vars

\* A thread that lists the jobs of the accounting database.
NextJobs == get_jobs

SpecJobs == Init /\ [][NextJobs]_vars

\* A thread that submits one job and updates its handle, each update()
\* followed to its end.
NextUpdate ==
    \/ sbatch /\ nsub = 0
    \/ init_ret
    \/ update_call
    \/ update_round

\* The thread keeps running while it is inside update().
SpecUpdate == Init /\ [][NextUpdate]_vars /\ WF_vars(update_round)

\* A thread that submits shell commands with easy(), the accounting
\* database answering the first query of every new handle.
NextEasy ==
    \/ easy
    \/ easy_sbatch
    \/ update /\ pc' = "init_ret"
    \/ init_ret

SpecEasy == Init /\ [][NextEasy]_vars

\* The command line is run, again and again, on one project.
NextRun ==
    \/ main
    \/ RunnerReadySet
    \/ RunnerSubmit
    \/ RunnerPollAll
    \/ \E t \in 1..MaxTasks, r \in PollResults : RunnerPoll(t, r)
    \/ \E t \in 1..MaxTasks : RunnerPollFails(t)
    \/ RunnerSave

SpecRun == Init /\ [][NextRun]_vars

\* One step of the Runner's main loop.
RunnerLoop ==
    \/ RunnerReadySet
    \/ RunnerSubmit
    \/ RunnerPollAll
    \/ \E t \in 1..MaxTasks, r \in PollResults : RunnerPoll(t, r)
    \/ \E t \in 1..MaxTasks : RunnerPollFails(t)
    \/ RunnerSave

\* The poll of task t finds its job resolved.
PollResolves(t) == RunnerPoll(t, "complete") \/ RunnerPoll(t, "failed")

\* The run under a scheduler that lets the Runner's loop go on, and a
\* backend that eventually resolves every submitted job.
SpecRunFair ==
    /\ Init
    /\ [][NextRun]_vars
    /\ WF_vars(RunnerLoop)
    /\ \A t \in 1..MaxTasks : SF_vars(PollResolves(t))

(***************************************************************************)
(* Properties                                                              *)
(***************************************************************************)
\* The step ends the running call with exception e.
Raises(e) == result'.kind = "raise" /\ result'.value = e

\* The classes of the specification a handle's status falls in.
Classes(job) ==
    {c \in {"active", "complete", "failed", "unknown"} :
        \/ c = "active" /\ is_active(job)
        \/ c = "complete" /\ is_complete(job)
        \/ c = "failed" /\ is_failed(job)
        \/ c = "unknown" /\ status(job) = "unknown"}

\* C1: every handle, whatever state of the scheduler vocabulary (or no
\* state at all) its record carries, is in exactly one of the classes
\* active, complete, failed, unknown.
C1_ClassificationTotalDisjoint ==
    \A h \in _instances : Cardinality(Classes(heap[h])) = 1

\* C2: a handle is failed for every inactive state that is not a completed
\* state, active exactly for the active states and complete exactly for
\* COMPLETED.
C2_TerminalNotCompletedIsFailed ==
    \A h \in _instances :
        /\ status(heap[h]) \in inactive_states \ completed_states
              => is_failed(heap[h])
        /\ is_active(heap[h]) <=> status(heap[h]) \in active_states
        /\ is_complete(heap[h]) <=> status(heap[h]) = "COMPLETED"

\* C3: a record without a State field gives status `unknown`, and neither
\* wait() returns nor wait_for() stops waiting on a handle whose status is
\* `unknown`.
C3_UnknownKeepsWaiting ==
    /\ \A h \in _instances :
          "State" \notin DOMAIN heap[h].sacct[1] => status(heap[h]) = "unknown"
    /\ result.call = "wait" /\ result.kind = "return"
          => result.value # "unknown"
    /\ \A h \in DOMAIN tracker : ~tracker[h] => status(heap[h]) # "unknown"

\* C4: in every round of update(), a failed query is swallowed and the
\* loop goes on while the time since update() began is within
\* _max_update_wait; SacctOutput is raised only beyond it, and then by the
\* next failed query; update() returns only on a reply with exactly one row
\* about the job.
C4_UpdateRetriesWithinBound ==
    [][pc = "update" =>
          LET elapsed == now - u_start
              returns == pc' # "update" /\ ~Raises("SacctOutput")
          IN  /\ Raises("SacctOutput") => elapsed > _max_update_wait
              /\ last'.n # 1 /\ elapsed > _max_update_wait
                    => Raises("SacctOutput")
              /\ last'.n # 1 /\ elapsed <= _max_update_wait
                    => pc' = "update" /\ result' = result
              /\ returns <=> last'.n = 1]_vars

\* C4, witness: a user's update() ended with SacctOutput.
C4_Witness ==
    result.call = "update" /\ result.kind = "raise"
        /\ result.value = "SacctOutput"

\* C5: when update() of a registered handle raises SacctOutput, and in
\* every round before, the handle's record is the one it had when update()
\* was entered, and so are its status and classification.
C5_FailedUpdateKeepsRecord ==
    [][pc = "update" /\ self \in _instances /\ last'.n # 1 =>
          /\ heap'[self] = heap[self]
          /\ heap'[self].sacct = pre
          /\ status(heap'[self]) = status(heap[self])
          /\ is_active(heap'[self]) = is_active(heap[self])
          /\ is_failed(heap'[self]) = is_failed(heap[self])
          /\ is_complete(heap'[self]) = is_complete(heap[self])]_vars

\* C5, witness: wait() on a handle with a record ended with SacctOutput.
C5_Witness ==
    /\ result.call = "wait"
    /\ result.kind = "raise"
    /\ result.value = "SacctOutput"
    /\ result.job \in _instances
    /\ heap[result.job].sacct # <<>>

\* C6: the lookup gives a record exactly when one row of the reply is
\* about the handle's job id, and then that row; otherwise it raises and
\* the handle keeps what it had.  No handle ever holds a row of another
\* job.
C6_LookupUniqueMatch ==
    /\ [](\A h \in _instances : int(heap[h].sacct[1].JobID) = heap[h].jid)
    /\ [][pc = "update" =>
             IF last'.n = 1
             THEN /\ heap'[self].sacct = last'.rec
                  /\ int(last'.rec[1].JobID) = heap[self].jid
                  /\ ~Raises("SacctOutput")
                  /\ pc' # "update"
             ELSE /\ Raises("SacctOutput") \/ pc' = "update"
                  /\ heap'[self].sacct = heap[self].sacct
                        \/ ~heap'[self].live]_vars

\* C6, witness: a reply with two rows about the job was refused.
C6_Witness == pc = "update" /\ last.n = 2

\* C7: wait_for() returns only when every handle it was given showed a
\* non-active status at its last update; each round updates exactly the
\* handles that were active at its start, each once, and never one that
\* was seen non-active; TimeoutError is raised only with a timeout given
\* and exceeded by the time since wait_for() began.
C7_WaitForAllInactive ==
    /\ [](call = "wait_for" =>
             /\ pc = "update" => tracker[self]
             /\ visited \cap Range(todo) = {}
             /\ visited \cup Range(todo) = incomplete
             /\ self \in visited)
    /\ [][call = "wait_for" =>
             /\ result'.call = "wait_for" /\ result'.kind = "return"
                   => \A h \in Range(order) : ~is_active(heap[h])
             /\ Raises("TimeoutError")
                   => w.timeout # <<>> /\ now - w.start > w.timeout[1]
             /\ pc = "for_ret" /\ todo = <<>> /\ pc' = "update"
                   => /\ visited = incomplete
                      /\ incomplete' =
                            {h \in Range(order) : is_active(heap[h])}
                      /\ incomplete' \subseteq incomplete]_vars

\* C7, witness: a second round of wait_for() on two handles that updates
\* the one still active and no longer the other.
C7_Witness ==
    /\ call = "wait_for"
    /\ pc = "update"
    /\ Len(order) = 2
    /\ \E h \in Range(order) : ~tracker[h] /\ h \notin incomplete

\* C8: from the entry of wait() or wait_for() to its end, TimeoutError
\* included, the thread runs no scheduler command but accounting queries:
\* no job is submitted, and the handles stay registered and usable after
\* a timeout.
C8_WaitOnlyQueries ==
    [][(call \in {"wait", "wait_for"} \/ call' \in {"wait", "wait_for"}) =>
          /\ cmd' \in {cmd, "sacct"}
          /\ nsub' = nsub
          /\ _instances' = _instances
          /\ Raises("TimeoutError") => UNCHANGED heap]_vars

\* C8, witness: wait_for() ended with TimeoutError.
C8_Witness ==
    result.call = "wait_for" /\ result.kind = "raise"
        /\ result.value = "TimeoutError"

\* C9: sbatch raises ChildProcessError with the process result exactly when
\* the submit command exits nonzero, and then no object is created, no
\* accounting query is run and SlurmJob._instances is as before; on a zero
\* exit the new object's jid is the job id the scheduler printed and its
\* cluster the qualifier printed after ';'.
C9_SubmitFailure ==
    [][pc = "idle" /\ (call' = "sbatch" \/ result'.call = "sbatch") =>
          IF p'.returncode # 0
          THEN /\ result' =
                     Raised("sbatch", "ChildProcessError", 0, p'.returncode)
               /\ pc' = "idle"
               /\ heap' = heap
               /\ _instances' = _instances
               /\ nsub' = nsub
               /\ cmd' = "sbatch"
               /\ nq' = 0
          ELSE /\ pc' = "update"
               /\ result'.kind = "none"
               /\ ~heap[self'].live
               /\ heap'[self'].jid = p'.jid
               /\ heap'[self'].cluster = <<p'.cluster>>]_vars

\* C9, witness: a submission failed after another had given a handle.
C9_Witness ==
    /\ result.call = "sbatch"
    /\ result.value = "ChildProcessError"
    /\ p.returncode # 0
    /\ _instances # {}

\* The status a row gives.
StateOf(row) == IF "State" \in DOMAIN row THEN row.State ELSE "unknown"

\* C10: after an update() that returns, the handle's status is the State
\* of the one row about its job in that reply; a handle becomes complete
\* only by a reply whose row says COMPLETED; wait() goes on while the
\* status it observes is active and returns the first status that is not.
C10_StatusFollowsRecord ==
    /\ [][pc = "update" /\ last'.n = 1
             => status(heap'[self]) = StateOf(last'.rec[1])]_vars
    /\ [][\A h \in Objects :
             is_complete(heap'[h]) /\ ~is_complete(heap[h])
                => /\ pc = "update" /\ self = h
                   /\ last'.n = 1
                   /\ StateOf(last'.rec[1]) = "COMPLETED"]_vars
    /\ [][pc = "wait_ret" =>
             IF is_active(heap[self])
             THEN pc' = "update" \/ Raises("TimeoutError")
             ELSE result' = Returned("wait", status(heap[self]), self)]_vars

\* C10, witness: wait() returned COMPLETED for a handle.
C10_Witness ==
    /\ result.call = "wait"
    /\ result.kind = "return"
    /\ result.value = "COMPLETED"
    /\ is_complete(heap[result.job])

\* The status of task t in workflow wf.
StatusOf(wf, t) == wf[t].status

\* C11: while a run is on, the tasks in dispatched or running are at most
\* the Runner's ceiling, which is --max-forks if given and the backend's
\* own limit otherwise; Backend.submit is called for a task only when that
\* count is strictly below the ceiling.
C11_ConcurrencyCeiling ==
    /\ [](rpc # "idle" =>
             /\ runner.max_concurrency =
                   IF run.max_forks # <<>> THEN run.max_forks[1]
                   ELSE concurrency_limit(runner.backend)
             /\ Cardinality(InFlight(workflow)) <= runner.max_concurrency)
    /\ [][rpc = "submit" /\ run'.submits # run.submits =>
             Cardinality(InFlight(workflow)) < runner.max_concurrency]_vars

\* C11, witness: a ready task is held back because the ceiling is reached.
C11_Witness ==
    /\ rpc = "submit"
    /\ ready # {}
    /\ runner.max_concurrency >= 1
    /\ Cardinality(InFlight(workflow)) = runner.max_concurrency

\* C12: whenever task b is failed, every task a that depends on b,
\* directly or transitively, is canceled and Backend.submit was never
\* called for it in this run (so it is never dispatched or complete, and
\* ends canceled); a step of the run cancels a task only if a task it
\* depends on fails in that step.
C12_CascadeRule ==
    /\ [](\A a \in DOMAIN workflow : \A b \in Ancestors(workflow, a) :
             StatusOf(workflow, b) = "failed" =>
                /\ StatusOf(workflow, a) = "canceled"
                /\ run.submits[a] = 0)
    /\ [][rpc # "idle" =>
             \A a \in DOMAIN workflow :
                StatusOf(workflow, a) # "canceled"
                   /\ StatusOf(workflow', a) = "canceled"
                => \E b \in Ancestors(workflow, a) :
                      /\ StatusOf(workflow, b) # "failed"
                      /\ StatusOf(workflow', b) = "failed"]_vars

\* C12, witness: in a chain of three tasks the first failed after it was
\* dispatched and the run ended with the other two canceled.
C12_Witness ==
    /\ rpc = "idle"
    /\ DOMAIN workflow = 1..3
    /\ workflow[2].dependencies = {1}
    /\ workflow[3].dependencies = {2}
    /\ run.submits[1] = 1
    /\ workflow[1].external_job
    /\ StatusOf(workflow, 1) = "failed"
    /\ StatusOf(workflow, 2) = "canceled"
    /\ StatusOf(workflow, 3) = "canceled"

\* The run is over: the loop was left with every task in a terminal state.
RunEnded == rpc = "idle" /\ Finished(workflow)

BrokenDependency(wf, t) ==
    \E d \in Ancestors(wf, t) : StatusOf(wf, d) \in {"failed", "canceled"}

\* C14: a restart applies retry() when --method is retry and resume() when
\* it is resume, and a built workflow gets neither; retry() makes pending
\* exactly the failed and pending tasks, and the run that follows ends
\* with every task complete that has no broken dependency and did not fail
\* itself; resume() leaves the failed tasks failed, and the run that
\* follows ends with them failed and their dependents canceled.
C14_RestartRetryResume ==
    /\ [][rpc = "idle" /\ rpc' # "idle" =>
             LET wf == load_workflow(saved)
             IN  CASE run'.method = "retry" ->
                        /\ workflow' = retry(wf)
                        /\ \A t \in DOMAIN wf :
                              StatusOf(workflow', t) =
                                 IF StatusOf(wf, t) \in {"failed", "pending"}
                                 THEN "pending" ELSE StatusOf(wf, t)
                   [] run'.method = "resume" ->
                        /\ workflow' = resume(wf)
                        /\ \A t \in DOMAIN wf :
                              StatusOf(workflow', t) = StatusOf(wf, t)
                   [] OTHER -> \E g \in Graphs : workflow' = build_workflow(g)
          ]_vars
    /\ [](RunEnded /\ run.method = "retry" =>
             \A t \in DOMAIN workflow :
                ~BrokenDependency(workflow, t)
                   /\ StatusOf(workflow, t) # "failed"
                => StatusOf(workflow, t) = "complete")
    /\ [](run.method = "resume" =>
             \A t \in DOMAIN workflow :
                StatusOf(run.loaded, t) = "failed" =>
                   /\ StatusOf(workflow, t) = "failed"
                   /\ \A a \in Dependents(workflow, t) :
                         StatusOf(workflow, a) = "canceled")

\* C15: the tasks ready_set() returned and the loop has not yet looked at
\* are pending with every dependency complete; Backend.submit is called at
\* most once per task and run, and a task it was called for is no longer
\* pending nor among the ready tasks.
C15_ReadySetDispatchOnce ==
    /\ [](\A t \in ready :
             /\ StatusOf(workflow, t) = "pending"
             /\ \A d \in workflow[t].dependencies :
                   StatusOf(workflow, d) = "complete")
    /\ [](\A t \in DOMAIN workflow :
             /\ run.submits[t] <= 1
             /\ run.submits[t] = 1 =>
                   t \notin ready /\ StatusOf(workflow, t) # "pending")
    /\ [][rpc = "loop" /\ rpc' = "submit" =>
             \A t \in ready' : run.submits[t] = 0]_vars

\* C15, witness: two tasks are ready at once, one of them depending on a
\* task that this run has completed.
C15_Witness ==
    /\ rpc = "submit"
    /\ Cardinality(ready) = 2
    /\ \E t \in ready : \E d \in workflow[t].dependencies :
          run.submits[d] = 1 /\ StatusOf(workflow, d) = "complete"

\* The place of a status on the way pending, dispatched, running, ended.
Rank(s) ==
    CASE s = "pending" -> 0
      [] s = "dispatched" -> 1
      [] s = "running" -> 2
      [] OTHER -> 3

\* C16: within a run a status changes only forward on the way pending,
\* dispatched, running, complete or failed, or from a status that is not
\* terminal to canceled: no task leaves complete, failed or canceled and
\* none returns to pending.  A restart changes a status only from failed
\* to pending, and only by retry().
C16_StatusMonotonic ==
    /\ [][rpc # "idle" =>
             \A t \in DOMAIN workflow :
                LET a == StatusOf(workflow, t)
                    b == StatusOf(workflow', t)
                IN  a # b =>
                       /\ a \in NonTerminal
                       /\ b # "pending"
                       /\ b = "canceled" \/ Rank(b) > Rank(a)]_vars
    /\ [][rpc = "idle" /\ run'.method # "none" =>
             \A t \in DOMAIN workflow :
                LET a == StatusOf(workflow, t)
                    b == StatusOf(workflow', t)
                IN  a # b =>
                       a = "failed" /\ b = "pending" /\ run'.method = "retry"
          ]_vars

\* C16, witness: a task that was polled running has ended complete, and
\* another went from pending to failed when its submission was refused.
C16_Witness ==
    /\ rpc = "poll"
    /\ \E t \in DOMAIN workflow :
          StatusOf(workflow, t) = "failed" /\ ~workflow[t].external_job
    /\ \E t \in DOMAIN workflow :
          StatusOf(workflow, t) = "complete" /\ run.submits[t] = 1

\* C17: every update() ends: it returns or raises; while it goes on, every
\* round takes the clock forward, and no round is begun later than
\* _max_update_wait plus the length of one query after update() began.
C17_UpdateTerminates ==
    /\ (pc = "update") ~> (pc # "update")
    /\ [][pc = "update" /\ pc' = "update" =>
             /\ now' >= now + _update_frequency
             /\ now - u_start <= _max_update_wait]_vars

\* C17, witness: an update() that has been retrying for longer than
\* _max_update_wait, before the round that raises.
C17_Witness ==
    /\ pc = "update"
    /\ last.n # 1
    /\ now - u_start > _max_update_wait

\* C18: in easy() the script is written to logs/<job_name>.sh before the
\* submit command is run: whenever the submit command is run for easy(),
\* the file is there already and holds the script the command is given on
\* its standard input, it still does for every submission made so far, and
\* a call of easy() that fails to make logs or to write the file submits
\* nothing.
C18_ScriptWrittenBeforeSubmit ==
    /\ [](\A s \in submitted :
             /\ s.job_name \in DOMAIN fs.files
             /\ fs.files[s.job_name] = decode(s.stdin_data))
    /\ [][\A s \in submitted' \ submitted :
             /\ s.job_name \in DOMAIN fs.files
             /\ fs.files[s.job_name] = decode(s.stdin_data)]_vars
    /\ [][Raises("OSError") \/ Raises("FileExistsError") =>
             submitted' = submitted /\ nsub' = nsub /\ pc' = "idle"]_vars

\* C18, witness: easy() submitted a job whose script has a character
\* outside ASCII, and another call of easy() failed to write its script and
\* submitted nothing.
C18_Witness ==
    /\ \E s \in submitted :
          /\ s.jid # 0
          /\ \E i \in 1..Len(fs.files[s.job_name]) :
                fs.files[s.job_name][i] \in NonAscii
    /\ \E n \in DOMAIN fs.files :
          /\ fs.files[n] = <<>>
          /\ \A s \in submitted : s.job_name # n
    /\ result.kind = "raise" /\ result.value = "OSError"

\* C19: active_states and inactive_states are disjoint and together the
\* keys of `states`; failed_states and completed_states are disjoint
\* subsets of inactive_states; no handle is in two of active, failed and
\* complete, and a handle with status `unknown` is in none.
C19_StateSetsPartition ==
    /\ active_states \cap inactive_states = {}
    /\ active_states \cup inactive_states = states
    /\ failed_states \cap completed_states = {}
    /\ failed_states \subseteq inactive_states
    /\ completed_states \subseteq inactive_states
    /\ \A h \in _instances :
          /\ ~(is_active(heap[h]) /\ is_failed(heap[h]))
          /\ ~(is_active(heap[h]) /\ is_complete(heap[h]))
          /\ ~(is_failed(heap[h]) /\ is_complete(heap[h]))
          /\ status(heap[h]) = "unknown" =>
                ~is_active(heap[h]) /\ ~is_failed(heap[h])
                   /\ ~is_complete(heap[h])

\* C19, witness: get_jobs() gave a handle with status `unknown` and one
\* that is failed.
C19_Witness ==
    /\ \E h \in _instances : status(heap[h]) = "unknown"
    /\ \E h \in _instances : is_failed(heap[h])

\* C20: wait_for() raises TimeoutError only while a job it was given is
\* still active by its latest update (the one just made included), and
\* wait() only while its job is.
C20_TimeoutOnlyWhileActive ==
    /\ [][call = "wait_for" /\ Raises("TimeoutError") =>
             \E h \in Range(order) :
                IF h = self THEN is_active(heap[self]) ELSE tracker[h]]_vars
    /\ [][call = "wait" /\ Raises("TimeoutError") =>
             is_active(heap[self])]_vars

\* C21: whenever the submit command exits zero, sbatch() returns a SlurmJob
\* for the job id it parsed and registers it in SlurmJob._instances,
\* whatever the accounting queries of the constructor answer; and every
\* handle in SlurmJob._instances has its sacct record set.
C21_SubmittedJobHasHandle ==
    /\ [][call = "sbatch" /\ p.returncode = 0 /\ pc' = "idle" =>
             /\ result'.kind = "return"
             /\ result'.job \in _instances'
             /\ heap'[result'.job].jid = p.jid]_vars
    /\ [](\A h \in _instances : heap[h].live /\ heap[h].sacct # <<>>)

====
